---- MODULE Spec2Model ----
(***************************************************************************)
(* A model of MainApplication/filecmpModified.py: the cached file          *)
(* comparator (cmp, _sig, _do_cmp, _cache), the batch comparator           *)
(* (cmpfiles, _cmp), the phased directory classifier (dircmp.phase0 ..     *)
(* phase4, __getattr__), the closure walks and the diff aggregation        *)
(* (report, subContentsDiffDir, addContentsDiffDir and the process-wide    *)
(* maps addedD, subbedD, addedF, subbedF).                                 *)
(*                                                                         *)
(* The file system is part of the state.  A path is the sequence of the    *)
(* tokens of its string: names and separators ("/" or "\\").  An entry of  *)
(* the file system is addressed by the names of its path alone.            *)
(***************************************************************************)
EXTENDS Naturals, Sequences, FiniteSets

VARIABLES
    platform,   \* os.name of the build: "posix" or "nt"
    fs,         \* the file system: names of a path |-> entry
    _cache,     \* filecmpModified._cache: key |-> outcome
    ret,        \* the last call of cmp / cmpfiles on the files as they are: its
                \* arguments, the cache it found (before) and what it returned
    silent,     \* TRUE once a file changed content under an unchanged signature
    objs,       \* the dircmp objects: id (names below the root object) |-> attributes
    stack,      \* ids of the dircmp objects the running closure call still has to visit
    mode,       \* the closure call in progress
    status,     \* "idle", "running", "done" or "error" (an OSError left the call)
    calls,      \* number of closure calls started so far
    subbedD, addedD, subbedF, addedF   \* the process-wide aggregation maps

vars == <<platform, fs, _cache, ret, silent, objs, stack, mode, status, calls,
          subbedD, addedD, subbedF, addedF>>

cmpVars == <<_cache, ret, silent>>
dirVars == <<objs, stack, mode, status, calls, subbedD, addedD, subbedF, addedF>>

(***************************************************************************)
(* Bounds of the model.                                                    *)
(***************************************************************************)
MaxCalls == 1       \* closure / report calls on the trees
MaxRuns == 2        \* closure / report calls in a sequence of comparisons
MaxVersion == 103   \* versions of the rewritten file in the cache workload

(***************************************************************************)
(* Names and their order.  Python sorts str by code point, so every        *)
(* upper-case letter precedes every lower-case one.                        *)
(***************************************************************************)
NamesInOrder == <<".git", "Foo", "bar", "f", "foo", "s", "t", "u", "x", "y">>

RankOf == [n \in {NamesInOrder[i] : i \in 1..Len(NamesInOrder)} |->
              CHOOSE i \in 1..Len(NamesInOrder) : NamesInOrder[i] = n]

Rank(n) == RankOf[n]

Range(s) == {s[i] : i \in 1..Len(s)}

\* the element of a set of one: Value({Op(y) : y \in {e}}) is Op(e) with e evaluated
\* once, as Python passes the result of a call
Value(S) == CHOOSE v \in S : TRUE

Min(a, b) == IF a < b THEN a ELSE b

\* the names of S in order: the i-th has i - 1 names of S before it
Sorted(S) ==
    [i \in 1..Cardinality(S) |->
        CHOOSE x \in S : Cardinality({y \in S : Rank(y) < Rank(x)}) = i - 1]

\* list.sort() of a list of distinct names
SortNames(S) == Value({Sorted(T) : T \in {S}})

sort(l) == SortNames(Range(l))

Reverse(s) == [i \in 1..Len(s) |-> s[Len(s) + 1 - i]]

\* os.path.normcase: the identity on posix, lower case on nt
normcase(n) ==
    IF platform = "nt" THEN (IF n = "Foo" THEN "foo" ELSE n) ELSE n

(***************************************************************************)
(* Paths.                                                                  *)
(***************************************************************************)
IsSep(t) == t = "/" \/ t = "\\"

sep == IF platform = "nt" THEN "\\" ELSE "/"

\* os.path.join(a, x)
join(a, x) == a \o <<sep, x>>

\* str(a) + '/' + x, as report() builds its paths
slash(a, x) == a \o <<"/", x>>

\* the names of a path: what the file system resolves
Components(p) == SelectSeq(p, LAMBDA t : ~IsSep(t))

(***************************************************************************)
(* The file system.  kind: "reg" a regular file, "dir" a directory,        *)
(* "nolist" a directory whose listing fails (no read permission), "other"  *)
(* a special file, "bad" a name that is listed but cannot be stat'ed (a    *)
(* dangling link).  data is the byte content, mtime the modification time, *)
(* readable whether open() succeeds.                                       *)
(***************************************************************************)
S_IFREG == "S_IFREG"
S_IFDIR == "S_IFDIR"
S_IFIFO == "S_IFIFO"

File(data, mtime, readable) ==
    [kind |-> "reg", data |-> data, mtime |-> mtime, readable |-> readable]

Ent(kind) == [kind |-> kind, data |-> <<>>, mtime |-> 1, readable |-> TRUE]

\* The entry a path resolves to.  A case-insensitive file system (nt) resolves
\* a name to the entry whose name differs from it by case only.
Resolve(f, p) ==
    LET c == Components(p)
        hits == {q \in DOMAIN f : /\ Len(q) = Len(c)
                                  /\ \A i \in 1..Len(c) : normcase(q[i]) = normcase(c[i])}
    IN IF c \in DOMAIN f THEN {c} ELSE IF platform = "nt" THEN hits ELSE {}

Exists(f, p) == Resolve(f, p) # {}

Entry(f, p) == f[CHOOSE q \in Resolve(f, p) : TRUE]

\* os.stat(p): FALSE when it raises OSError
StatOk(f, p) == Exists(f, p) /\ Entry(f, p).kind # "bad"

\* stat.S_IFMT(st.st_mode)
S_IFMT(f, p) ==
    LET k == Entry(f, p).kind
    IN IF k = "reg" THEN S_IFREG
       ELSE IF k \in {"dir", "nolist"} THEN S_IFDIR
       ELSE S_IFIFO

st_size(f, p) == Len(Entry(f, p).data)

st_mtime(f, p) == Entry(f, p).mtime

\* os.path.isdir / os.path.isfile: False when the stat fails
isdir(f, p) == StatOk(f, p) /\ S_IFMT(f, p) = S_IFDIR

isfile(f, p) == StatOk(f, p) /\ S_IFMT(f, p) = S_IFREG

\* os.listdir(p) succeeds
ListOk(f, p) == Exists(f, p) /\ Entry(f, p).kind = "dir"

\* the names os.listdir(p) returns
Children(f, p) ==
    LET c == CHOOSE q \in Resolve(f, p) : TRUE
    IN {q[Len(q)] : q \in {r \in DOMAIN f : Len(r) = Len(c) + 1 /\ SubSeq(r, 1, Len(c)) = c}}

\* os.listdir(p) returns the names in an arbitrary order: o selects one
ListOrders == {"up", "down"}

listdir(f, p, o) ==
    IF o = "up" THEN SortNames(Children(f, p)) ELSE Reverse(SortNames(Children(f, p)))

(***************************************************************************)
(* The file comparator.                                                    *)
(***************************************************************************)
BUFSIZE == 2        \* 8*1024 in the source, scaled to the contents of the model

CacheLimit == 100

\* _sig(os.stat(p))
_sig(f, p) == <<S_IFMT(f, p), st_size(f, p), st_mtime(f, p)>>

\* open(p, 'rb') succeeds
OpenOk(f, p) == Exists(f, p) /\ Entry(f, p).kind = "reg" /\ Entry(f, p).readable

\* fp.read(bufsize) at offset pos (1-based)
read(data, pos) ==
    IF pos > Len(data) THEN <<>> ELSE SubSeq(data, pos, Min(pos + BUFSIZE - 1, Len(data)))

\* the loop of _do_cmp from offset pos
RECURSIVE ChunkLoop(_, _, _)
ChunkLoop(d1, d2, pos) ==
    LET b1 == read(d1, pos)
        b2 == read(d2, pos)
    IN IF b1 # b2 THEN FALSE
       ELSE IF b1 = <<>> THEN TRUE
       ELSE ChunkLoop(d1, d2, pos + BUFSIZE)

\* _do_cmp as it would be without the loop: the first chunks alone
_do_cmp_one_chunk(f, f1, f2) == read(Entry(f, f1).data, 1) = read(Entry(f, f2).data, 1)

_do_cmp(f, f1, f2) == ChunkLoop(Entry(f, f1).data, Entry(f, f2).data, 1)

\* CacheKey as it would be without the signatures
CacheKeyNoSig(f, f1, f2) == <<f1, f2>>

\* the cache key of cmp
CacheKey(f, f1, f2) == <<f1, f2, _sig(f, f1), _sig(f, f2)>>

\* Store as it would be without the test of the size
StoreNoClear(c, k, v) == [x \in DOMAIN c \cup {k} |-> IF x = k THEN v ELSE c[x]]

\* the entry stored at the end of cmp: the cache is cleared first when it
\* already holds more than CacheLimit entries
Store(c, k, v) ==
    LET base == IF Cardinality(DOMAIN c) > CacheLimit THEN <<>> ELSE c
    IN [x \in DOMAIN base \cup {k} |-> IF x = k THEN v ELSE base[x]]

\* the cache lookup of cmp: TRUE when _cache.get(key) is not None
CacheHit(c, k) == k \in DOMAIN c

\* cmp(f1, f2, shallow) on file system f with cache c:
\* raised (an OSError left the call), value, read (file content was read), hit (the value
\* came from the cache) and the cache after
cmp(f, c, f1, f2, shallow) ==
    LET out(raised, value, rd, cc) ==
            [raised |-> raised, value |-> value, read |-> rd, hit |-> FALSE, cache |-> cc]
    IN IF ~StatOk(f, f1) \/ ~StatOk(f, f2) THEN out(TRUE, FALSE, FALSE, c)
       ELSE LET s1 == _sig(f, f1)
                s2 == _sig(f, f2)
                k == CacheKey(f, f1, f2)
            IN IF s1[1] # S_IFREG \/ s2[1] # S_IFREG THEN out(FALSE, FALSE, FALSE, c)
               ELSE IF shallow /\ s1 = s2 THEN out(FALSE, TRUE, FALSE, c)
               ELSE IF s1[2] # s2[2] THEN out(FALSE, FALSE, FALSE, c)
               ELSE IF CacheHit(c, k) THEN [out(FALSE, c[k], FALSE, c) EXCEPT !.hit = TRUE]
               ELSE IF ~OpenOk(f, f1) \/ ~OpenOk(f, f2) THEN out(TRUE, FALSE, FALSE, c)
               ELSE LET outcome == _do_cmp(f, f1, f2)
                    IN out(FALSE, outcome, TRUE, Store(c, k, outcome))

\* clear_cache()
clear_cache == <<>>

(***************************************************************************)
(* The batch comparator.                                                   *)
(***************************************************************************)
\* Python's abs() and not on a bool, and a bool used as a list index
abs(b) == IF b THEN 1 ELSE 0

not(i) == i = 0

index(b) == IF b THEN 1 ELSE 0

\* _cmp as it would be without the not
_cmp_unnegated(r) == IF r.raised THEN 2 ELSE abs(r.value)

\* _cmp(a, b, sh): 0 equal, 1 different, 2 an OSError
_cmp(r) == IF r.raised THEN 2 ELSE index(not(abs(r.value)))

\* cmpfiles(a, b, common, shallow) with cache c: the three lists and the cache after
RECURSIVE cmpfiles(_, _, _, _, _, _)
\* res[i].append(x) ahead of what the rest of the loop appends
Appended(x, i, rest) ==
    [res |-> [j \in 1..3 |-> IF j = i + 1 THEN <<x>> \o rest.res[j] ELSE rest.res[j]],
     cache |-> rest.cache]

\* one turn of the loop of cmpfiles: r is what cmp did for Head(common)
Turn(f, a, b, common, shallow, r) ==
    Appended(Head(common), _cmp(r), cmpfiles(f, r.cache, a, b, Tail(common), shallow))

cmpfiles(f, c, a, b, common, shallow) ==
    IF common = <<>> THEN [res |-> <<<<>>, <<>>, <<>>>>, cache |-> c]
    ELSE Turn(f, a, b, common, shallow,
              cmp(f, c, join(a, Head(common)), join(b, Head(common)), shallow))

(***************************************************************************)
(* dircmp: the lazily computed attributes of one object.  has is the set   *)
(* of attributes the object holds; an attribute outside has does not exist *)
(* yet, and reading it runs __getattr__.                                   *)
(***************************************************************************)
DEFAULT_IGNORES == <<"RCS", "CVS", "tags", ".git", ".hg", ".bzr", "_darcs", "__pycache__">>

DefaultHide == <<".", "..">>

\* dircmp.__init__(a, b, ignore, hide)
dircmp(a, b, ignore, hide) ==
    [left |-> a, right |-> b, hide |-> hide, ignore |-> ignore, has |-> {},
     left_list |-> <<>>, right_list |-> <<>>,
     common |-> <<>>, left_only |-> <<>>, right_only |-> <<>>,
     common_dirs |-> <<>>, common_files |-> <<>>, common_funny |-> <<>>,
     same_files |-> <<>>, diff_files |-> <<>>, funny_files |-> <<>>,
     subdirs |-> <<>>]

\* _filter(flist, skip)
_filter(flist, skip) == SelectSeq(flist, LAMBDA n : n \notin Range(skip))

\* the outcome of a method: the object after it and whether an OSError left it
Done(o) == [o |-> o, raised |-> FALSE]

Raised(o) == [o |-> o, raised |-> TRUE]

\* phase0 after both listings l and r were taken: both stored, both sorted
Phase0Both(o, l, r) ==
    Done([o EXCEPT !.left_list = sort(l), !.right_list = sort(r),
                   !.has = @ \cup {"left_list", "right_list"}])

\* phase0 after the left listing l was taken: it is stored, unsorted, before the
\* right one is taken
Phase0Right(f, o, ord, l) ==
    IF ~ListOk(f, o.right)
    THEN Raised([o EXCEPT !.left_list = l, !.has = @ \cup {"left_list"}])
    ELSE Phase0Both(o, l, _filter(listdir(f, o.right, ord), o.hide \o o.ignore))

\* phase0 as it would be with a failed listing taken for an empty one
phase0_lenient(f, o, ord) ==
    Phase0Both(o,
               IF ListOk(f, o.left)
               THEN _filter(listdir(f, o.left, ord), o.hide \o o.ignore) ELSE <<>>,
               IF ListOk(f, o.right)
               THEN _filter(listdir(f, o.right, ord), o.hide \o o.ignore) ELSE <<>>)

\* dircmp.phase0
phase0(f, o, ord) ==
    IF ~ListOk(f, o.left) THEN Raised(o)
    ELSE Phase0Right(f, o, ord, _filter(listdir(f, o.left, ord), o.hide \o o.ignore))

\* dict(zip(map(os.path.normcase, l), l)): the keys in the order of their first
\* occurrence, each with the value of its last occurrence
DictKeys(l) ==
    LET first == SelectSeq([i \in 1..Len(l) |-> i],
                           LAMBDA i : \A j \in 1..(i - 1) : normcase(l[j]) # normcase(l[i]))
    IN [i \in 1..Len(first) |-> normcase(l[first[i]])]

DictGet(l, k) == l[CHOOSE i \in 1..Len(l) :
                     /\ normcase(l[i]) = k
                     /\ \A j \in (i + 1)..Len(l) : normcase(l[j]) # k]

DictHas(l, k) == \E i \in 1..Len(l) : normcase(l[i]) = k

\* the three lists dircmp.phase1 computes from the two listings
Common(ll, rl) ==
    LET keys == SelectSeq(DictKeys(ll), LAMBDA k : DictHas(rl, k))
    IN [i \in 1..Len(keys) |-> DictGet(ll, keys[i])]

\* LeftOnly as it would be with the right names looked up as listed, not normalized
LeftOnlyRaw(ll, rl) == SelectSeq(ll, LAMBDA n : n \notin Range(rl))

LeftOnly(ll, rl) ==
    LET keys == SelectSeq(DictKeys(ll), LAMBDA k : ~DictHas(rl, k))
    IN [i \in 1..Len(keys) |-> DictGet(ll, keys[i])]

RightOnly(ll, rl) ==
    LET keys == SelectSeq(DictKeys(rl), LAMBDA k : ~DictHas(ll, k))
    IN [i \in 1..Len(keys) |-> DictGet(rl, keys[i])]

\* dircmp.phase1
phase1(o) ==
    [o EXCEPT !.common = Common(o.left_list, o.right_list),
              !.left_only = LeftOnly(o.left_list, o.right_list),
              !.right_only = RightOnly(o.left_list, o.right_list),
              !.has = @ \cup {"common", "left_only", "right_only"}]

\* BucketOf as it would be with the left type alone deciding
BucketOfLeft(ok, a_type, b_type) ==
    IF ok
    THEN IF a_type = S_IFDIR THEN "common_dirs"
         ELSE IF a_type = S_IFREG THEN "common_files"
         ELSE "common_funny"
    ELSE "common_funny"

\* the bucket dircmp.phase2 appends to, from the two stats (ok: both succeeded)
BucketOf(ok, a_type, b_type) ==
    IF ok
    THEN IF a_type # b_type THEN "common_funny"
         ELSE IF a_type = S_IFDIR THEN "common_dirs"
         ELSE IF a_type = S_IFREG THEN "common_files"
         ELSE "common_funny"
    ELSE "common_funny"

\* the stat of p as phase2 uses it: the type, or "OSError"
TypeOf(f, p) == IF StatOk(f, p) THEN S_IFMT(f, p) ELSE "OSError"

Bucket(f, o, x) ==
    BucketOf(TypeOf(f, join(o.left, x)) # "OSError" /\ TypeOf(f, join(o.right, x)) # "OSError",
             TypeOf(f, join(o.left, x)), TypeOf(f, join(o.right, x)))

\* the buckets of all the common names, in order
Buckets(f, o) == [i \in 1..Len(o.common) |-> Bucket(f, o, o.common[i])]

InBucket(common, b, which) ==
    LET at == SelectSeq([i \in 1..Len(common) |-> i], LAMBDA i : b[i] = which)
    IN [i \in 1..Len(at) |-> common[at[i]]]

Phase2Store(o, b) ==
    [o EXCEPT !.common_dirs = InBucket(o.common, b, "common_dirs"),
              !.common_files = InBucket(o.common, b, "common_files"),
              !.common_funny = InBucket(o.common, b, "common_funny"),
              !.has = @ \cup {"common_dirs", "common_files", "common_funny"}]

\* dircmp.phase2
phase2(f, o) == Value({Phase2Store(o, b) : b \in {Buckets(f, o)}})

\* dircmp.phase4: the keys of self.subdirs
phase4(o) == [o EXCEPT !.subdirs = o.common_dirs, !.has = @ \cup {"subdirs"}]

\* the child object phase4 creates for the common directory x
Child(o, x) == dircmp(join(o.left, x), join(o.right, x), o.ignore, o.hide)

\* dircmp.methodmap
methodmap ==
    [subdirs |-> "phase4",
     same_files |-> "phase3", diff_files |-> "phase3", funny_files |-> "phase3",
     common_dirs |-> "phase2", common_files |-> "phase2", common_funny |-> "phase2",
     common |-> "phase1", left_only |-> "phase1", right_only |-> "phase1",
     left_list |-> "phase0", right_list |-> "phase0"]

\* Reading the attributes a phase needs: __getattr__ runs the phase that computes
\* an attribute the object does not hold.  ThenN(r) is phase N after the reads
\* before it ended as r.
Get0(f, o, ord) ==
    IF {"left_list", "right_list"} \subseteq o.has THEN Done(o) ELSE phase0(f, o, ord)

Then1(r) == IF r.raised THEN r ELSE Done(phase1(r.o))

Get1(f, o, ord) ==
    IF "common" \in o.has THEN Done(o) ELSE Value({Then1(r) : r \in {Get0(f, o, ord)}})

Then2(f, r) == IF r.raised THEN r ELSE Done(phase2(f, r.o))

Get2(f, o, ord) ==
    IF "common_dirs" \in o.has THEN Done(o)
    ELSE Value({Then2(f, r) : r \in {Get1(f, o, ord)}})

Then4(r) == IF r.raised THEN r ELSE Done(phase4(r.o))

\* an explicit call of self.phase4(): always rebuilds subdirs
Call4(f, o, ord) == Value({Then4(r) : r \in {Get2(f, o, ord)}})

Get4(f, o, ord) == IF "subdirs" \in o.has THEN Done(o) ELSE Call4(f, o, ord)

Phase3Store(o, xx) ==
    [o |-> [o EXCEPT !.same_files = xx.res[1], !.diff_files = xx.res[2],
                     !.funny_files = xx.res[3],
                     !.has = @ \cup {"same_files", "diff_files", "funny_files"}],
     raised |-> FALSE, cache |-> xx.cache]

Then3(f, c, r) ==
    IF r.raised THEN [o |-> r.o, raised |-> TRUE, cache |-> c]
    ELSE Phase3Store(r.o, cmpfiles(f, c, r.o.left, r.o.right, r.o.common_files, FALSE))

\* dircmp.phase3, with the cache it leaves
phase3(f, c, o, ord) == Value({Then3(f, c, r) : r \in {Get2(f, o, ord)}})

Keep(r, c) == [o |-> r.o, raised |-> r.raised, cache |-> c]

\* dircmp.__getattr__(attr) for an attribute the object does not hold
getattr(f, c, o, attr, ord) ==
    IF methodmap[attr] = "phase0" THEN Keep(phase0(f, o, ord), c)
    ELSE IF methodmap[attr] = "phase1" THEN Keep(Get1(f, o, ord), c)
    ELSE IF methodmap[attr] = "phase2" THEN Keep(Get2(f, o, ord), c)
    ELSE IF methodmap[attr] = "phase3" THEN phase3(f, c, o, ord)
    ELSE Keep(Call4(f, o, ord), c)

(***************************************************************************)
(* Diff aggregation: report() and the walks of one-sided directories.      *)
(***************************************************************************)
\* dircmp.clipPath(path): every backslash becomes a slash
clipPath(p) == [i \in 1..Len(p) |-> IF p[i] = "\\" THEN "/" ELSE p[i]]

\* m[k] = v on a dict
Put(m, k, v) == [x \in DOMAIN m \cup {k} |-> IF x = k THEN v ELSE m[x]]

\* m[clipPath(e.path)] = e.name for every e of E
PutAll(m, E) ==
    [x \in DOMAIN m \cup {clipPath(e.path) : e \in E} |->
        IF \E e \in E : clipPath(e.path) = x
        THEN (CHOOSE e \in E : clipPath(e.path) = x).name
        ELSE m[x]]

\* os.walk(top, topdown=True): every (root, name) it yields, with whether the name is
\* among root's directories.  A directory whose listing fails yields nothing.
RECURSIVE walk(_, _)
WalkDir(f, top, names) ==
    {[path |-> join(top, n), name |-> n, dir |-> isdir(f, join(top, n))] : n \in names}
        \cup UNION {walk(f, join(top, n)) : n \in {m \in names : isdir(f, join(top, m))}}

walk(f, top) == IF ~ListOk(f, top) THEN {} ELSE WalkDir(f, top, Children(f, top))

PutWalk(D, F, w) ==
    [D |-> PutAll(D, {e \in w : e.dir}), F |-> PutAll(F, {e \in w : ~e.dir})]

\* subContentsDiffDir(path) / addContentsDiffDir(path) on the maps D (directories) and F (files)
ContentsDiffDir(f, path, D, F) == Value({PutWalk(D, F, w) : w \in {walk(f, path)}})

\* one loop of report(): the one-sided names of the directory base, in order, on
\* the maps m = [D, F]
RECURSIVE ReportSide(_, _, _, _)
ReportName(f, p, name, m) ==
    IF isdir(f, p) THEN ContentsDiffDir(f, p, Put(m.D, clipPath(p), name), m.F)
    ELSE IF isfile(f, p) THEN [D |-> m.D, F |-> Put(m.F, clipPath(p), name)]
    ELSE m

ReportSide(f, base, only, m) ==
    IF only = <<>> THEN m
    ELSE Value({ReportSide(f, base, Tail(only), n) :
                   n \in {ReportName(f, slash(base, Head(only)), Head(only), m)}})

ReportOut(o, l, r) ==
    [o |-> o, raised |-> FALSE, sD |-> l.D, aD |-> r.D, sF |-> l.F, aF |-> r.F]

ReportSorted(f, o, sD, aD, sF, aF) ==
    Value({ReportOut(o, l, r) :
              l \in {ReportSide(f, o.left, o.left_only, [D |-> sD, F |-> sF])},
              r \in {ReportSide(f, o.right, o.right_only, [D |-> aD, F |-> aF])}})

ReportGot(f, r, sD, aD, sF, aF) ==
    IF r.raised
    THEN [o |-> r.o, raised |-> TRUE, sD |-> sD, aD |-> aD, sF |-> sF, aF |-> aF]
    ELSE Value({ReportSorted(f, o, sD, aD, sF, aF) :
                   o \in {[r.o EXCEPT !.left_only = sort(@), !.right_only = sort(@)]}})

\* report as it would be with maps of its own, empty at every call
report_fresh(f, o, ord, sD, aD, sF, aF) ==
    Value({ReportGot(f, r, <<>>, <<>>, <<>>, <<>>) : r \in {Get1(f, o, ord)}})

\* dircmp.report(): the object and the four maps after it
report(f, o, ord, sD, aD, sF, aF) ==
    Value({ReportGot(f, r, sD, aD, sF, aF) : r \in {Get1(f, o, ord)}})

(***************************************************************************)
(* The tree of dircmp objects.  The root object has id <<>>, the child     *)
(* subdirs[x] of the object id has id Append(id, x).                       *)
(***************************************************************************)
IsBelow(id, j) == Len(j) > Len(id) /\ SubSeq(j, 1, Len(id)) = id

\* Kids as it would be with the root object alone recursing
KidsOfRoot(id, o) ==
    IF id = <<>> THEN [i \in 1..Len(o.subdirs) |-> Append(id, o.subdirs[i])] ELSE <<>>

\* the ids of the children of object id, in the order of self.subdirs.values()
Kids(id, o) == [i \in 1..Len(o.subdirs) |-> Append(id, o.subdirs[i])]

\* the objects after phase4 ran on object id and left it as o: a new child for every key
\* of subdirs, the former children and their descendants gone
Rebuilt(os, id, o) ==
    [j \in ({k \in DOMAIN os : ~IsBelow(id, k)} \cup Range(Kids(id, o))) |->
        IF j = id THEN o
        ELSE IF IsBelow(id, j) THEN Child(o, j[Len(j)])
        ELSE os[j]]

\* the objects after object id became o, phase4 having run (ran) or not
Installed(os, id, o, ran) == IF ran THEN Rebuilt(os, id, o) ELSE [os EXCEPT ![id] = o]

RootPairs == {<<<<"A">>, <<"B">>>>, <<<<"B">>, <<"A">>>>}

Modes == {"report", "partial", "full", "closure"}

\* x = dircmp(a, b): a new root object (ignore and hide are those of the current one)
New(a, b, limit) ==
    /\ status # "running"
    /\ calls < limit
    /\ <<objs[<<>>].left, objs[<<>>].right>> # <<a, b>>
    /\ objs' = [j \in {<<>>} |-> dircmp(a, b, objs[<<>>].ignore, objs[<<>>].hide)]
    /\ status' = "idle"
    /\ mode' = "none"
    /\ UNCHANGED <<platform, fs, cmpVars, stack, calls, subbedD, addedD, subbedF, addedF>>

\* x.report(), x.report_partial_closure(), x.report_full_closure() or
\* x.phase4_closure() is called on the root object
Call(m, limit) ==
    /\ status # "running"
    /\ calls < limit
    /\ mode' = m
    /\ stack' = << <<>> >>
    /\ status' = "running"
    /\ calls' = calls + 1
    /\ UNCHANGED <<platform, fs, cmpVars, objs, subbedD, addedD, subbedF, addedF>>

\* the OSError leaves the running call: object id stays as o
Fail(id, o) ==
    /\ objs' = [objs EXCEPT ![id] = o]
    /\ stack' = <<>>
    /\ status' = "error"

\* the running call goes on after object id, left as o, with the children kids to visit first
Go(id, o, ran, kids) ==
    /\ objs' = Installed(objs, id, o, ran)
    /\ stack' = kids \o Tail(stack)
    /\ status' = IF kids \o Tail(stack) = <<>> THEN "done" ELSE "running"

\* the reading of subdirs on object id ended as g
Recurse(id, g, ran) == IF g.raised THEN Fail(id, g.o) ELSE Go(id, g.o, ran, Kids(id, g.o))

\* report() on object id ended as r
Reported(id, r, ord) ==
    /\ subbedD' = r.sD /\ addedD' = r.aD /\ subbedF' = r.sF /\ addedF' = r.aF
    /\ IF r.raised THEN Fail(id, r.o)
       ELSE IF mode = "full" \/ (mode = "partial" /\ id = <<>>)
       THEN \E g \in {Get4(fs, r.o, ord)} : Recurse(id, g, "subdirs" \notin r.o.has)
       ELSE Go(id, r.o, FALSE, <<>>)

\* the running call reaches its next object: report() on it and, where the call
\* recurses, the reading of subdirs; or phase4() for phase4_closure
Visit(ord) ==
    /\ status = "running"
    /\ stack # <<>>
    /\ IF mode = "closure"
       THEN /\ \E g \in {Call4(fs, objs[Head(stack)], ord)} : Recurse(Head(stack), g, TRUE)
            /\ UNCHANGED <<subbedD, addedD, subbedF, addedF>>
       ELSE \E r \in {report(fs, objs[Head(stack)], ord, subbedD, addedD, subbedF, addedF)} :
               Reported(Head(stack), r, ord)
    /\ UNCHANGED <<platform, fs, cmpVars, mode, calls>>

\* dircmp.clearDictionaries(): prints "continue" and clears nothing
ClearDictionaries ==
    /\ status # "running"
    /\ UNCHANGED vars

GotAttr(attr, r) ==
    /\ objs' = Installed(objs, <<>>, r.o, ~r.raised /\ methodmap[attr] = "phase4")
    /\ _cache' = r.cache
    /\ status' = IF r.raised THEN "error" ELSE status

\* an attribute of the root object is read for the first time
GetAttr(attr, ord) ==
    /\ status = "idle"
    /\ attr \notin objs[<<>>].has
    /\ GotAttr(attr, getattr(fs, _cache, objs[<<>>], attr, ord))
    /\ UNCHANGED <<platform, fs, ret, silent, stack, mode, calls,
                   subbedD, addedD, subbedF, addedF>>

(***************************************************************************)
(* The comparator's operations and the changes the files undergo.          *)
(***************************************************************************)
NoRet ==
    [op |-> "none", f1 |-> <<>>, f2 |-> <<>>, names |-> <<>>, shallow |-> FALSE,
     raised |-> FALSE, value |-> FALSE, read |-> FALSE, hit |-> FALSE, res |-> <<>>,
     before |-> <<>>]

\* cmp(f1, f2, shallow)
Returned(f1, f2, shallow, r) ==
    /\ _cache' = r.cache
    /\ ret' = [NoRet EXCEPT !.op = "cmp", !.f1 = f1, !.f2 = f2, !.shallow = shallow,
                            !.raised = r.raised, !.value = r.value, !.read = r.read,
                            !.hit = r.hit, !.before = _cache]

Cmp(f1, f2, shallow) ==
    /\ Returned(f1, f2, shallow, cmp(fs, _cache, f1, f2, shallow))
    /\ UNCHANGED <<platform, fs, silent, dirVars>>

\* cmpfiles(a, b, names, shallow)
ReturnedLists(a, b, names, shallow, r) ==
    /\ _cache' = r.cache
    /\ ret' = [NoRet EXCEPT !.op = "cmpfiles", !.f1 = a, !.f2 = b, !.names = names,
                            !.shallow = shallow, !.res = r.res, !.before = _cache]

Cmpfiles(a, b, names, shallow) ==
    /\ ReturnedLists(a, b, names, shallow, cmpfiles(fs, _cache, a, b, names, shallow))
    /\ UNCHANGED <<platform, fs, silent, dirVars>>

\* clear_cache()
ClearCache ==
    /\ _cache # <<>>
    /\ _cache' = clear_cache
    /\ ret' = NoRet
    /\ UNCHANGED <<platform, fs, silent, dirVars>>

Contents == {<<0>>, <<1>>, <<0, 0, 0>>, <<0, 0, 1>>}

\* another process changes the content of the regular file p and leaves its size and
\* modification time as they were (a write within the clock's granularity, or os.utime)
SilentWrite(p, data) ==
    /\ p \in DOMAIN fs /\ fs[p].kind = "reg"
    /\ data # fs[p].data /\ Len(data) = Len(fs[p].data)
    /\ fs' = [fs EXCEPT ![p].data = data]
    /\ silent' = TRUE
    /\ ret' = NoRet
    /\ UNCHANGED <<platform, _cache, dirVars>>

\* the cache workload: A/x is rewritten again and again, each version with the other
\* content and a later modification time, once the current version has been compared
Rewrite ==
    /\ fs[<<"A", "x">>].mtime < MaxVersion
    /\ CacheKey(fs, join(<<"A">>, "x"), join(<<"B">>, "x")) \in DOMAIN _cache
    /\ fs' = [fs EXCEPT ![<<"A", "x">>].data = <<1 - @[1]>>, ![<<"A", "x">>].mtime = @ + 1]
    /\ ret' = NoRet
    /\ UNCHANGED <<platform, _cache, silent, dirVars>>

(***************************************************************************)
(* Initial states.                                                         *)
(***************************************************************************)
\* the function with the graph S (a set of <<argument, value>>)
FnOf(S) == [p \in {e[1] : e \in S} |-> (CHOOSE e \in S : e[1] = p)[2]]

\* the entry named n of kind k in directory d ("absent": none)
Named(d, n, k) == IF k = "absent" THEN {} ELSE {<<Append(d, n), Ent(k)>>}

RootDirs == {<< <<"A">>, Ent("dir") >>, << <<"B">>, Ent("dir") >>}

InitCmpVars ==
    /\ _cache = <<>>
    /\ ret = NoRet
    /\ silent = FALSE

InitDirVars(ignore, hide) ==
    /\ objs = [j \in {<<>>} |-> dircmp(<<"A">>, <<"B">>, ignore, hide)]
    /\ stack = <<>>
    /\ mode = "none"
    /\ status = "idle"
    /\ calls = 0
    /\ subbedD = <<>> /\ addedD = <<>> /\ subbedF = <<>> /\ addedF = <<>>

\* One level: the names Foo, foo, bar and .git in A and in B.  A directory of a
\* case-insensitive file system (nt) never holds both Foo and foo.
LevelSide(d, c) ==
    Named(d, "Foo", c.Foo) \cup Named(d, "foo", c.foo) \cup Named(d, "bar", c.bar)
        \cup Named(d, ".git", c.git)

LevelChoices ==
    [Foo : {"absent", "reg", "dir"}, foo : {"absent", "reg", "dir"},
     bar : {"absent", "other", "bad"}, git : {"absent", "dir"}]

InitLevel ==
    /\ platform \in {"posix", "nt"}
    /\ \E a \in LevelChoices, b \in LevelChoices :
          /\ b.git = "dir"
          /\ platform = "nt" => \A c \in {a, b} : c.Foo = "absent" \/ c.foo = "absent"
          /\ fs = FnOf(RootDirs \cup LevelSide(<<"A">>, a) \cup LevelSide(<<"B">>, b))
    /\ InitCmpVars
    /\ InitDirVars(DEFAULT_IGNORES, DefaultHide)

\* A tree: s, s/u, s/u/f, t and t/f below A and below B
TreeSide(d, c) ==
    Named(d, "s", c.s) \cup Named(Append(d, "s"), "u", c.su)
        \cup Named(d \o <<"s", "u">>, "f", c.suf)
        \cup Named(d, "t", c.t) \cup Named(Append(d, "t"), "f", c.tf)

TreeChoices ==
    {c \in [s : {"absent", "reg", "bad", "nolist", "dir"},
            su : {"absent", "nolist", "dir"},
            suf : {"absent", "reg"},
            t : {"absent", "dir"},
            tf : {"absent", "reg"}] :
        /\ c.s \notin {"dir", "nolist"} => c.su = "absent"
        /\ c.s = "nolist" => c.su \in {"absent", "dir"}
        /\ c.su = "absent" => c.suf = "absent"
        /\ c.su = "nolist" \/ c.s = "nolist" => c.suf = "reg" \/ c.su = "absent"
        /\ c.tf = "reg" <=> c.t = "dir"}

\* the trees of a sequence of comparisons
RunChoices ==
    {c \in TreeChoices : /\ c.s \in {"absent", "dir"}
                         /\ c.su \in {"absent", "dir"}
                         /\ c.su = "dir" => c.suf = "reg"}

InitTree ==
    /\ platform \in {"posix", "nt"}
    /\ \E a \in TreeChoices, b \in TreeChoices :
          fs = FnOf(RootDirs \cup TreeSide(<<"A">>, a) \cup TreeSide(<<"B">>, b))
    /\ InitCmpVars
    /\ InitDirVars(DEFAULT_IGNORES, DefaultHide)

InitRuns ==
    /\ platform \in {"posix", "nt"}
    /\ \E a \in RunChoices, b \in RunChoices :
          fs = FnOf(RootDirs \cup TreeSide(<<"A">>, a) \cup TreeSide(<<"B">>, b))
    /\ InitCmpVars
    /\ InitDirVars(DEFAULT_IGNORES, DefaultHide)

\* Files: x and y in A and in B
FilesA == {File(d, m, TRUE) : d \in Contents, m \in {1, 2}}
              \cup {File(<<0>>, 1, FALSE), Ent("dir"), Ent("bad")}

FilesB == {File(d, 1, TRUE) : d \in Contents} \cup {File(<<0>>, 1, FALSE)}

FilesY == {File(<<0>>, 1, TRUE), File(<<1>>, 1, TRUE), Ent("bad")}

InitCmp ==
    /\ platform = "posix"
    /\ \E ax \in FilesA, bx \in FilesB, by \in FilesY :
          fs = FnOf(RootDirs \cup {<< <<"A", "x">>, ax >>, << <<"B", "x">>, bx >>,
                                   << <<"A", "y">>, File(<<0>>, 1, TRUE) >>,
                                   << <<"B", "y">>, by >>})
    /\ InitCmpVars
    /\ InitDirVars(DEFAULT_IGNORES, DefaultHide)

InitCache ==
    /\ platform = "posix"
    /\ fs = FnOf(RootDirs \cup {<< <<"A", "x">>, File(<<0>>, 1, TRUE) >>,
                                << <<"B", "x">>, File(<<0>>, 1, TRUE) >>})
    /\ InitCmpVars
    /\ InitDirVars(DEFAULT_IGNORES, DefaultHide)

(***************************************************************************)
(* Specifications.                                                         *)
(***************************************************************************)
FileNames == {"x", "y"}

NameLists == {<<"x", "y">>, <<"y", "x">>}

\* the comparator on changing files
NextCmp ==
    \/ \E n \in FileNames, shallow \in BOOLEAN :
          Cmp(join(<<"A">>, n), join(<<"B">>, n), shallow)
    \/ \E names \in NameLists, shallow \in BOOLEAN :
          Cmpfiles(<<"A">>, <<"B">>, names, shallow)
    \/ ClearCache
    \/ \E n \in {"A", "B"}, data \in Contents : SilentWrite(<<n, "x">>, data)

SpecCmp == InitCmp /\ [][NextCmp]_vars

\* the cache under more than CacheLimit distinct comparisons
NextCache ==
    \/ \E shallow \in BOOLEAN : Cmp(join(<<"A">>, "x"), join(<<"B">>, "x"), shallow)
    \/ ClearCache
    \/ Rewrite

SpecCache == InitCache /\ [][NextCache]_vars

\* one directory pair, attribute by attribute
NextLevel == \E attr \in DOMAIN methodmap, ord \in ListOrders : GetAttr(attr, ord)

SpecLevel == InitLevel /\ [][NextLevel]_vars

\* the closure calls on two trees
NextTree ==
    \/ \E pair \in RootPairs : New(pair[1], pair[2], MaxCalls)
    \/ \E m \in Modes : Call(m, MaxCalls)
    \/ \E ord \in ListOrders : Visit(ord)

SpecTree == InitTree /\ [][NextTree]_vars

\* a sequence of closure calls on several objects
NextRuns ==
    \/ ClearDictionaries
    \/ \E pair \in RootPairs : New(pair[1], pair[2], MaxRuns)
    \/ \E m \in Modes : Call(m, MaxRuns)
    \/ \E ord \in ListOrders : Visit(ord)

SpecRuns == InitRuns /\ [][NextRuns]_vars

\* every closure call runs to its end
FairTree == SpecTree /\ WF_vars(\E ord \in ListOrders : Visit(ord))

Spec == SpecTree

(***************************************************************************)
(* Properties of the directory classifier (SpecLevel).                     *)
(***************************************************************************)
Root == objs[<<>>]

\* the names of directory d that hide + ignore of object o let through
Filtered(o, d) == {n \in Children(fs, d) : n \notin Range(o.hide) \cup Range(o.ignore)}

Norm(S) == {normcase(n) : n \in S}

\* C1 as stated: left_only, right_only and common are pairwise disjoint and their
\* union is the union of the filtered names of both sides.
C1_Original ==
    "common" \in Root.has =>
        LET lo == Range(Root.left_only)
            ro == Range(Root.right_only)
            c == Range(Root.common)
        IN /\ lo \cap ro = {} /\ lo \cap c = {} /\ ro \cap c = {}
           /\ lo \cup ro \cup c = Filtered(Root, Root.left) \cup Filtered(Root, Root.right)

\* C1 as amended: the three lists partition the filtered names up to case.  common
\* and left_only hold names of the left listing, right_only names of the right
\* listing, each as listed; the normalized names of common are those on both
\* sides, of left_only those on the left only, of right_only those on the right
\* only.  The three lists are pairwise disjoint.
C1_Partition ==
    "common" \in Root.has =>
        LET lo == Range(Root.left_only)
            ro == Range(Root.right_only)
            c == Range(Root.common)
            FA == Filtered(Root, Root.left)
            FB == Filtered(Root, Root.right)
        IN /\ c \subseteq FA /\ lo \subseteq FA /\ ro \subseteq FB
           /\ Norm(c) = Norm(FA) \cap Norm(FB)
           /\ Norm(lo) = Norm(FA) \ Norm(FB)
           /\ Norm(ro) = Norm(FB) \ Norm(FA)
           /\ lo \cap ro = {} /\ lo \cap c = {} /\ ro \cap c = {}
           /\ Len(Root.common) = Cardinality(c)
           /\ Len(Root.left_only) = Cardinality(lo)
           /\ Len(Root.right_only) = Cardinality(ro)

\* A and B hold the same name in two casings on nt: common holds the left casing,
\* and the right casing is in no list
C1_Witness ==
    /\ "common" \in Root.has
    /\ platform = "nt"
    /\ "Foo" \in Range(Root.common)
    /\ "foo" \in Filtered(Root, Root.right)
    /\ ".git" \in Children(fs, Root.left)
    /\ Root.left_only # <<>>

\* C2: phase2 puts every common name in exactly one of common_dirs, common_files and
\* common_funny; in common_funny exactly when a stat fails, the two types differ or
\* the shared type is neither regular file nor directory; in common_dirs exactly
\* when both are directories, in common_files exactly when both are regular files.
C2_Buckets ==
    "common_dirs" \in Root.has =>
        LET d == Range(Root.common_dirs)
            fl == Range(Root.common_files)
            fu == Range(Root.common_funny)
            a(x) == join(Root.left, x)
            b(x) == join(Root.right, x)
            funny(x) ==
                \/ ~StatOk(fs, a(x)) \/ ~StatOk(fs, b(x))
                \/ S_IFMT(fs, a(x)) # S_IFMT(fs, b(x))
                \/ S_IFMT(fs, a(x)) \notin {S_IFREG, S_IFDIR}
        IN /\ d \cup fl \cup fu = Range(Root.common)
           /\ d \cap fl = {} /\ d \cap fu = {} /\ fl \cap fu = {}
           /\ Len(Root.common_dirs) + Len(Root.common_files) + Len(Root.common_funny)
                  = Len(Root.common)
           /\ \A x \in Range(Root.common) :
                 /\ x \in fu <=> funny(x)
                 /\ x \in d <=> ~funny(x) /\ S_IFMT(fs, a(x)) = S_IFDIR
                 /\ x \in fl <=> ~funny(x) /\ S_IFMT(fs, a(x)) = S_IFREG
                 /\ isfile(fs, a(x)) /\ isdir(fs, b(x)) => x \notin d \cup fl

\* a common name that is a regular file in A and a directory in B is funny, beside a
\* name that cannot be stat'ed
C2_Witness ==
    /\ "common_dirs" \in Root.has
    /\ \E x \in Range(Root.common_funny) :
          isfile(fs, join(Root.left, x)) /\ isdir(fs, join(Root.right, x))
    /\ \E x \in Range(Root.common_funny) : ~StatOk(fs, join(Root.left, x))

(***************************************************************************)
(* Properties of the comparator (SpecCmp, SpecCache).                      *)
(***************************************************************************)
\* what the comparator does for each of names in turn, from the cache c on
RECURSIVE Outcomes(_, _, _, _, _)
Outcomes(a, b, names, c, shallow) ==
    IF names = <<>> THEN <<>>
    ELSE LET r == cmp(fs, c, join(a, Head(names)), join(b, Head(names)), shallow)
         IN <<IF r.raised THEN "OSError" ELSE IF r.value THEN "true" ELSE "false">>
                \o Outcomes(a, b, Tail(names), r.cache, shallow)

\* the names whose outcome is w, in the order of names
Picked(names, out, w) ==
    LET at == SelectSeq([i \in 1..Len(names) |-> i], LAMBDA i : out[i] = w)
    IN [i \in 1..Len(at) |-> names[at[i]]]

Data(p) == Entry(fs, p).data

BothRegular(f1, f2) == S_IFMT(fs, f1) = S_IFREG /\ S_IFMT(fs, f2) = S_IFREG

\* the last of the four cases of cmp: two regular files, no shallow match, equal sizes
LastCase(f1, f2, shallow) ==
    /\ BothRegular(f1, f2)
    /\ ~(shallow /\ _sig(fs, f1) = _sig(fs, f2))
    /\ st_size(fs, f1) = st_size(fs, f2)

\* C4 as stated: a returning cmp gives false for a non-regular file, else true for a
\* shallow call on equal signatures, else false for different sizes, else whether
\* the byte streams are equal; content is read in the last case only.
C4_Original ==
    ret.op = "cmp" /\ ~ret.raised =>
        /\ ret.value =
              IF ~BothRegular(ret.f1, ret.f2) THEN FALSE
              ELSE IF ret.shallow /\ _sig(fs, ret.f1) = _sig(fs, ret.f2) THEN TRUE
              ELSE IF st_size(fs, ret.f1) # st_size(fs, ret.f2) THEN FALSE
              ELSE Data(ret.f1) = Data(ret.f2)
        /\ ret.read => LastCase(ret.f1, ret.f2, ret.shallow)

\* the key under which cmp looks the pair up
KeyOf(f1, f2) ==
    <<f1, f2, <<S_IFMT(fs, f1), st_size(fs, f1), st_mtime(fs, f1)>>,
              <<S_IFMT(fs, f2), st_size(fs, f2), st_mtime(fs, f2)>>>>

\* C4 as amended: in the last case a returning cmp gives the outcome the cache holds
\* for (f1, f2, sig1, sig2) when it holds one, and only otherwise reads the content
\* and gives whether the byte streams are equal.
C4_Cached ==
    ret.op = "cmp" /\ ~ret.raised =>
        /\ ret.value =
              IF ~BothRegular(ret.f1, ret.f2) THEN FALSE
              ELSE IF ret.shallow /\ _sig(fs, ret.f1) = _sig(fs, ret.f2) THEN TRUE
              ELSE IF st_size(fs, ret.f1) # st_size(fs, ret.f2) THEN FALSE
              ELSE IF KeyOf(ret.f1, ret.f2) \in DOMAIN ret.before
              THEN ret.before[KeyOf(ret.f1, ret.f2)]
              ELSE Data(ret.f1) = Data(ret.f2)
        /\ ret.read <=> /\ LastCase(ret.f1, ret.f2, ret.shallow)
                        /\ KeyOf(ret.f1, ret.f2) \notin DOMAIN ret.before

\* a deep comparison of two files of three bytes that differ in the last chunk only
\* has read the content and returned false
C4_Witness ==
    /\ ret.op = "cmp" /\ ~ret.raised /\ ~ret.shallow
    /\ ret.read /\ ~ret.value
    /\ Len(Data(ret.f1)) > BUFSIZE
    /\ read(Data(ret.f1), 1) = read(Data(ret.f2), 1)
    /\ _sig(fs, ret.f1) = _sig(fs, ret.f2)

\* C5 as stated: the cache holds at most 100 entries whenever a cmp call has returned.
C5_Original == ret.op = "cmp" => Cardinality(DOMAIN _cache) <= CacheLimit

\* C5 as amended: the cache holds at most 101 entries whenever a cmp call has
\* returned; a call that stores a result clears the cache first when it already
\* holds more than 100 entries.
C5_Bound ==
    /\ ret.op = "cmp" => Cardinality(DOMAIN _cache) <= CacheLimit + 1
    /\ ret.op = "cmp" /\ ret.read /\ Cardinality(DOMAIN ret.before) > CacheLimit
          => Cardinality(DOMAIN _cache) = 1

\* the call that found 101 entries stored its result in an emptied cache
C5_Witness ==
    /\ ret.op = "cmp" /\ ret.read
    /\ Cardinality(DOMAIN ret.before) = CacheLimit + 1
    /\ Cardinality(DOMAIN _cache) = 1

Slashed(q) == [i \in 1..(2 * Len(q) - 1) |-> IF i % 2 = 1 THEN q[(i + 1) \div 2] ELSE "/"]

\* the objects report() ran on in the call that is done
ReportedIds ==
    IF mode = "report" THEN {<<>>}
    ELSE IF mode = "partial" THEN {j \in DOMAIN objs : Len(j) <= 1}
    ELSE IF mode = "full" THEN DOMAIN objs
    ELSE {}

\* the maps D and F hold the one-sided name x of the directory base with all it contains
Whole(base, x, D, F) ==
    LET top == Append(Components(base), x)
    IN /\ isdir(fs, top) =>
             /\ Slashed(top) \in DOMAIN D
             /\ \A q \in DOMAIN fs :
                   IsBelow(top, q) =>
                      /\ fs[q].kind \in {"dir", "nolist"} => Slashed(q) \in DOMAIN D
                      /\ fs[q].kind = "reg" => Slashed(q) \in DOMAIN F
       /\ isfile(fs, top) => Slashed(top) \in DOMAIN F

\* C7 as stated: after report() on a node the removed maps hold every left_only
\* directory with every directory and file nested under it at any depth and every
\* left_only regular file, and the added maps the same of right_only.
C7_Original ==
    status = "done" =>
        \A id \in ReportedIds :
           /\ \A x \in Range(objs[id].left_only) : Whole(objs[id].left, x, subbedD, subbedF)
           /\ \A x \in Range(objs[id].right_only) : Whole(objs[id].right, x, addedD, addedF)

\* the names the two directories have in common as directories, skip left out
ExpectedDirs(l, r, skip) ==
    IF ListOk(fs, l) /\ ListOk(fs, r)
    THEN {x \in Children(fs, l) \ skip :
             /\ \E y \in Children(fs, r) \ skip : normcase(y) = normcase(x)
             /\ isdir(fs, join(l, x)) /\ isdir(fs, join(r, x))}
    ELSE {}

\* the ids of the directory pairs a chain of common directories reaches from (l, r)
RECURSIVE Reachable(_, _, _, _)
Reachable(id, l, r, skip) ==
    {id} \cup UNION {Reachable(Append(id, x), join(l, x), join(r, x), skip) :
                        x \in ExpectedDirs(l, r, skip)}

Skipped == Range(Root.hide \o Root.ignore)

ClosureDone == status = "done" /\ mode \in {"full", "closure"}

Tree ==
    ClosureDone =>
        /\ DOMAIN objs = Reachable(<<>>, Root.left, Root.right, Skipped)
        /\ \A id \in DOMAIN objs :
              /\ "subdirs" \in objs[id].has
              /\ objs[id].subdirs = objs[id].common_dirs
              /\ Range(objs[id].common_dirs)
                    = ExpectedDirs(objs[id].left, objs[id].right, Skipped)
              /\ \A x \in Range(objs[id].subdirs) :
                    /\ Append(id, x) \in DOMAIN objs
                    /\ objs[Append(id, x)].left = join(objs[id].left, x)
                    /\ objs[Append(id, x)].right = join(objs[id].right, x)
                    /\ objs[Append(id, x)].ignore = objs[id].ignore
                    /\ objs[Append(id, x)].hide = objs[id].hide

\* C8: a full closure that was started ends, and when it is done there is an object
\* for exactly the directory pairs a chain of common directories reaches from the
\* root: the subdirs of each object are its common_dirs, the child for x compares
\* left/x with right/x under the parent's ignore and hide, and an object without
\* common directories has no children.
C8_Closure == []Tree /\ (status = "running" ~> status \in {"done", "error"})

\* a full closure is done that went two levels down
C8_Witness ==
    /\ ClosureDone /\ mode = "full"
    /\ <<"s", "u">> \in DOMAIN objs
    /\ <<"t">> \in DOMAIN objs
    /\ objs[<<"s", "u">>].subdirs = <<>>

Classified == {"common", "left_only", "right_only", "common_dirs", "common_files",
               "common_funny", "subdirs"}

\* the listing of a directory of object id fails, and the object has no classification
\* and no children
Aborted(id) ==
    /\ ~ListOk(fs, objs[id].left) \/ ~ListOk(fs, objs[id].right)
    /\ objs[id].has \cap Classified = {}
    /\ \A j \in DOMAIN objs : ~IsBelow(id, j)

\* C9: a closure call ends with an error only where the listing of a directory of an
\* object failed, that object then has no classification and no children and the call
\* visits nothing more; a closure that is done listed both directories of every
\* object; a common name whose stat fails is in common_funny and raises nothing.
C9_Scope ==
    /\ status = "error" => stack = <<>> /\ \E id \in DOMAIN objs : Aborted(id)
    /\ ClosureDone =>
          \A id \in DOMAIN objs : ListOk(fs, objs[id].left) /\ ListOk(fs, objs[id].right)
    /\ \A id \in DOMAIN objs :
          "common_funny" \in objs[id].has =>
             \A x \in Range(objs[id].common) :
                ~StatOk(fs, join(objs[id].left, x)) \/ ~StatOk(fs, join(objs[id].right, x))
                   => x \in Range(objs[id].common_funny)

\* the listing of A/s failed in a full closure: the object of s is not classified, and
\* the object of t, its sibling, was never visited
C9_Witness ==
    /\ status = "error" /\ mode = "full"
    /\ <<"s">> \in DOMAIN objs /\ Aborted(<<"s">>)
    /\ ~ListOk(fs, objs[<<"s">>].left)
    /\ <<"t">> \in DOMAIN objs /\ objs[<<"t">>].has = {}

Persists(m, n) == DOMAIN m \subseteq DOMAIN n /\ \A k \in DOMAIN m : n[k] = m[k]

\* C10: no operation on dircmp objects removes or changes an entry of addedD, subbedD,
\* addedF or subbedF: every key recorded stays recorded, with its name, over any
\* sequence of report, report_partial_closure and report_full_closure calls on any objects.
C10_Grow ==
    [][/\ Persists(addedD, addedD') /\ Persists(subbedD, subbedD')
       /\ Persists(addedF, addedF') /\ Persists(subbedF, subbedF')]_vars

\* after a report on (A, B) and a report on (B, A) the removed directories are those
\* of both comparisons
C10_Witness ==
    /\ calls = 2 /\ status = "done"
    /\ Root.left = <<"B">>
    /\ \E k \in DOMAIN subbedD : k[1] = "A"
    /\ \E k \in DOMAIN subbedD : k[1] = "B"
    /\ \E k \in DOMAIN addedF : k[1] = "A" /\ Len(k) > 3

====
